---- MODULE Spec2Model ----
(***************************************************************************)
(* Monero Wallet Manager: the JSON-RPC client with its authentication      *)
(* negotiation (app/rpc.py), the RabbitMQ drain cycle and consumer loop,   *)
(* the withdrawal processor and the HTTP facade handlers (app/main.py),    *)
(* and the address ledger (app/models.py).                                 *)
(*                                                                         *)
(* Python values are modelled as follows.  A dict is a function whose      *)
(* domain is the set of its keys, so d.get(k, default) is Get(d, k,        *)
(* default) and "k in d" is k \in DOMAIN d.  Text that the code inspects   *)
(* character by character (the WWW-Authenticate header, the configured     *)
(* scheme) is a sequence of one-character strings; other text is a TLA+    *)
(* string.  None (for text) is the string "None"; an optional dict is a    *)
(* sequence of length 0 or 1.                                              *)
(***************************************************************************)
EXTENDS Integers, Sequences, FiniteSets, TLC

VARIABLES
    rpc,        \* app.state.rpc: the shared MoneroRPC client (credentials, scheme, _id)
    lastCall,   \* observation of the latest MoneroRPC.call(): inputs, attempts, outcome
    rabbitUrl,  \* RABBITMQ_URL is configured
    msgs,       \* the bodies of the messages published to the queue, by message id
    queue,      \* the broker's queue: ids of the ready messages, head first
    drain,      \* per thread executing _drain_queue_once: its position and locals
    transfers,  \* per message id, how many transfer_split calls made for it the wallet confirmed
    nacks,      \* per message id, how many times basic_nack was called for it
    ledger,     \* the addressmap table: its rows in insertion order
    reqs,       \* the POST /addresses requests in flight, per request slot
    resp,       \* the latest HTTP request served by another route, with its response
    callers,    \* per thread using the shared client: its call() in progress, step by step
    issued      \* the request ids put into payloads, in the order the payloads were built

(***************************************************************************)
(* Bounds of the model                                                     *)
(***************************************************************************)
MaxCalls == 2       \* calls of MoneroRPC.call() explored in the client specification
MaxQueue == 3       \* messages published to the queue
MaxCycles == 2      \* drain cycles run by one executor
MaxShortQueue == 1  \* messages published where every kind of message is explored
MaxRequests == 2    \* POST /addresses requests, which may all be in flight at once
MaxServed == 3      \* request ids the shared client has handed out when the facade stops serving

(***************************************************************************)
(* Python helpers                                                          *)
(***************************************************************************)
None == "None"
EmptyDict == [k \in {} |-> k]

\* dict.get(k, d)
Get(m, k, d) == IF k \in DOMAIN m THEN m[k] ELSE d

\* Python truthiness of a text-or-None value: "not v" is Falsy(v)
Falsy(v) == v = None \/ v = ""

\* str.lower() on one character of the alphabet the model uses
LowerChar(c) ==
    CASE c = "B" -> "b"
      [] c = "D" -> "d"
      [] c = "I" -> "i"
      [] c = "G" -> "g"
      [] c = "E" -> "e"
      [] c = "S" -> "s"
      [] c = "T" -> "t"
      [] OTHER -> c

\* str.lower()
StrLower(s) == [i \in 1..Len(s) |-> LowerChar(s[i])]

\* "sub in s"
StrContains(s, sub) ==
    \E i \in 0..(Len(s) - Len(sub)) : SubSeq(s, i + 1, i + Len(sub)) = sub

sBasic == <<"b", "a", "s", "i", "c">>
sDigest == <<"d", "i", "g", "e", "s", "t">>

(***************************************************************************)
(* The wallet server's answers (environment)                               *)
(***************************************************************************)
\* WWW-Authenticate header values a server may send
ChallengeBasic == <<"B", "a", "s", "i", "c">>
ChallengeDigest == <<"D", "i", "g", "e", "s", "t", " ", "q">>
ChallengeDigestUpper == <<"D", "I", "G", "E", "S", "T">>
ChallengeBasicDigest == <<"B", "a", "s", "i", "c", " ", "D", "i", "g", "e", "s", "t">>
Challenges == {ChallengeBasic, ChallengeDigest, ChallengeDigestUpper, ChallengeBasicDigest}

\* response headers: httpx header names are case-insensitive, kept lower-case here
HeaderSets == {EmptyDict} \cup {[www_authenticate |-> c] : c \in Challenges}

Methods == {"get_version", "get_address", "create_address", "get_address_index",
            "get_balance", "transfer", "transfer_split", "sweep_all"}

\* a "result" that is JSON null: call() then returns None instead of a mapping
JsonNull == [null |-> TRUE]
IsDict(res) == res # JsonNull

\* the "result" mappings the wallet may return for a method; any field may be absent
ResultsOf(method) ==
    CASE method = "get_address_index" ->
            {EmptyDict, [index |-> [major |-> 1, minor |-> 2]]}
      [] method = "get_address" ->
            {EmptyDict, [addresses |-> <<>>], [addresses |-> <<[address |-> "P"]>>],
             [addresses |-> <<EmptyDict>>]}
      [] method = "create_address" ->
            {EmptyDict, [address |-> "A1", address_index |-> 1],
             [address |-> "A2", address_index |-> 2], [address |-> "A1"]}
      [] method = "sweep_all" ->
            {EmptyDict, [tx_hash_list |-> <<"h1">>, amount_list |-> <<3>>, fee_list |-> <<1>>]}
      [] method \in {"transfer", "transfer_split"} ->
            {EmptyDict, [tx_hash_list |-> <<"h1">>]}
      [] OTHER -> {EmptyDict, [version |-> 1]}

\* a response body: not JSON at all, or a JSON object with optional "error" and "result"
NotJson == [json |-> FALSE, data |-> EmptyDict]
JsonBody(d) == [json |-> TRUE, data |-> d]
BodiesOf(method) ==
    {NotJson, JsonBody(EmptyDict), JsonBody([error |-> "E"]), JsonBody([result |-> JsonNull])}
    \cup {JsonBody([result |-> res]) : res \in ResultsOf(method)}
    \cup {JsonBody([error |-> "", result |-> res]) : res \in ResultsOf(method)}
    \cup {JsonBody([error |-> "E", result |-> res]) : res \in ResultsOf(method)}

\* the attempt raised httpx.RequestError (DNS, connection, timeout): no response
NetErr == [kind |-> "neterr", status |-> 0, headers |-> EmptyDict, body |-> NotJson]
\* placeholder for the second response of a call that makes no second attempt
NoResponse == [kind |-> "none", status |-> 0, headers |-> EmptyDict, body |-> NotJson]
Http(status, headers, body) ==
    [kind |-> "http", status |-> status, headers |-> headers, body |-> body]

ResponsesOf(method) ==
    {NetErr}
    \cup {Http(200, h, b) : h \in {EmptyDict, [www_authenticate |-> ChallengeDigest]},
                            b \in BodiesOf(method)}
    \cup {Http(s, h, NotJson) : s \in {401, 500}, h \in HeaderSets}

(***************************************************************************)
(* MoneroRPC (app/rpc.py)                                                  *)
(***************************************************************************)
\* MoneroRPC.__init__: auth_scheme = (auth_scheme or "basic").lower(), _id = 0
MoneroRPC(username, password, auth_scheme) ==
    [username |-> username, password |-> password,
     auth_scheme |-> StrLower(IF auth_scheme = <<>> THEN sBasic ELSE auth_scheme),
     id |-> 0]

\* MoneroRPC._make_auth: None without credentials, else digest or (default) basic
_make_auth(self, scheme) ==
    IF ~(~Falsy(self.username) \/ ~Falsy(self.password))
    THEN None
    ELSE IF StrLower(IF scheme = <<>> THEN sBasic ELSE scheme) = sDigest
         THEN "digest"
         ELSE "basic"

\* the JSON-RPC envelope; the params key is omitted when params is None
Payload(id, method, params) ==
    IF params = <<>>
    THEN [jsonrpc |-> "2.0", id |-> id, method |-> method]
    ELSE [jsonrpc |-> "2.0", id |-> id, method |-> method, params |-> params[1]]

\* r.headers.get("www-authenticate", r.headers.get("WWW-Authenticate", ""))
WwwOf(r) == Get(r.headers, "www_authenticate", <<>>)

\* mutant: the challenge is matched case-sensitively (no .lower())
WantsDigestRetry_CaseSensitive(r1) ==
    /\ r1.kind = "http"
    /\ r1.status = 401
    /\ StrContains(WwwOf(r1), sDigest)

\* mutant: every 401 is retried, whatever the challenge
WantsDigestRetry_Any401(r1) ==
    /\ r1.kind = "http"
    /\ r1.status = 401

\* rpc.py:35-37: the first response asks for the digest retry
WantsDigestRetry(r1) ==
    /\ r1.kind = "http"
    /\ r1.status = 401
    /\ StrContains(StrLower(WwwOf(r1)), sDigest)

\* mutant: only a server error raises, a 4xx response is decoded like a 200
RaisesForStatus_ServerOnly(r) == r.status >= 500
\* r.raise_for_status(): a non-2xx status raises HTTPStatusError
RaisesForStatus(r) == ~(200 <= r.status /\ r.status <= 299)

Ok(result) == [ok |-> TRUE, kind |-> "result", result |-> result,
               status |-> 0, scheme |-> <<>>, www |-> <<>>]
Fail(kind, status, scheme, www) ==
    [ok |-> FALSE, kind |-> kind, result |-> EmptyDict,
     status |-> status, scheme |-> scheme, www |-> www]

\* mutant: the "error" field of the decoded body is not looked at
HasRpcError_Ignored(data) == FALSE
\* rpc.py:55: `"error" in data and data["error"]`
HasRpcError(data) == "error" \in DOMAIN data /\ ~Falsy(data["error"])

\* rpc.py:41-57 on the response r that the attempts ended with
Conclude(self, r) ==
    IF r.kind = "neterr" THEN Fail("transport", 0, <<>>, <<>>)
    ELSE IF RaisesForStatus(r) THEN Fail("http", r.status, self.auth_scheme, WwwOf(r))
    ELSE IF ~r.body.json THEN Fail("decode", 0, <<>>, <<>>)
    ELSE IF HasRpcError(r.body.data) THEN Fail("rpc_error", 0, <<>>, <<>>)
    ELSE Ok(Get(r.body.data, "result", EmptyDict))

\* rpc.py:26-57: call() from the point where the request id is in the payload
Exchange(self, id, method, params, r1, r2) ==
    LET payload == Payload(id, method, params)
        first == [auth |-> _make_auth(self, self.auth_scheme), payload |-> payload]
        retry == [auth |-> _make_auth(self, sDigest), payload |-> payload]
    IN  IF WantsDigestRetry(r1)
        THEN [id |-> id, attempts |-> <<first, retry>>, outcome |-> Conclude(self, r2)]
        ELSE [id |-> id, attempts |-> <<first>>, outcome |-> Conclude(self, r1)]

\* MoneroRPC.call with the server answering r1 to the first attempt and r2 to the retry
\* (r2 is read only when the retry is made).  Yields the request id used, the HTTP
\* attempts made (authentication and payload of each) and the outcome.  Lines 25-26
\* run without interruption here: one thread is using the client.
call(self, method, params, r1, r2) == Exchange(self, self.id + 1, method, params, r1, r2)

\* the responses the server gives to the retry, when one is made
RetryResponses(method, r1) ==
    IF WantsDigestRetry(r1) THEN ResponsesOf(method) \ {NoResponse} ELSE {NoResponse}

(***************************************************************************)
(* Specification of the RPC client alone: SpecRpc                          *)
(***************************************************************************)
Usernames == {None, "user"}
Passwords == {None, "secret"}
\* MONERO_RPC_AUTH_SCHEME as configured (before lower-casing); empty means unset
ConfiguredSchemes == {<<>>, sBasic, sDigest, <<"D", "i", "g", "e", "s", "t">>}

NoCall == [method |-> "none", params |-> <<>>, r1 |-> NoResponse, r2 |-> NoResponse,
           id |-> 0, attempts |-> <<>>, outcome |-> Fail("none", 0, <<>>, <<>>)]

RpcMethods == {"get_version", "create_address"}
ParamsOf(method) == IF method = "get_version" THEN <<>> ELSE <<[account_index |-> 0]>>

\* no thread is inside call()
NoCallers == [t \in {} |-> t]

InitRpc ==
    /\ \E u \in Usernames, p \in Passwords, s \in ConfiguredSchemes :
          rpc = MoneroRPC(u, p, s)
    /\ lastCall = NoCall
    /\ rabbitUrl = FALSE
    /\ msgs = <<>>
    /\ queue = <<>>
    /\ drain = [p \in {"consumer"} |-> [pc |-> "off"]]
    /\ transfers = <<>>
    /\ nacks = <<>>
    /\ ledger = <<>>
    /\ reqs = <<>>
    /\ resp = [route |-> "none"]
    /\ callers = NoCallers
    /\ issued = <<>>

\* one complete call() on the client
DoCall(method, r1, r2) ==
    /\ rpc.id < MaxCalls
    /\ lastCall' = [method |-> method, params |-> ParamsOf(method), r1 |-> r1, r2 |-> r2]
                   @@ call(rpc, method, ParamsOf(method), r1, r2)
    /\ rpc' = [rpc EXCEPT !.id = lastCall'.id]
    /\ UNCHANGED <<rabbitUrl, msgs, queue, drain, transfers, nacks, ledger, reqs, resp, callers, issued>>

NextRpc ==
    \E m \in RpcMethods : \E r1 \in ResponsesOf(m) : \E r2 \in RetryResponses(m, r1) :
        DoCall(m, r1, r2)

vars == <<rpc, lastCall, rabbitUrl, msgs, queue, drain, transfers, nacks, ledger, reqs, resp,
          callers, issued>>

SpecRpc == InitRpc /\ [][NextRpc]_vars

(***************************************************************************)
(* What a call() can come to, over all answers of the server               *)
(***************************************************************************)
ClientSchemes == {sBasic, sDigest}

\* the outcomes of call() on a client for a method, whatever the server answers
\* (the outcome does not depend on _id)
OutcomeSet(username, password, scheme, method) ==
    UNION {{call([username |-> username, password |-> password, auth_scheme |-> scheme,
                  id |-> 0], method, <<>>, r1, r2).outcome
              : r2 \in RetryResponses(method, r1)}
           : r1 \in ResponsesOf(method)}

\* OutcomeSet tabulated once, as pairs <<configuration and method, outcomes>>
OutcomeTable ==
    {<<c, OutcomeSet(c[1], c[2], c[3], c[4])>> :
        c \in Usernames \X Passwords \X ClientSchemes \X Methods}

OutcomesOf(self, method) ==
    LET key == <<self.username, self.password, self.auth_scheme, method>>
    IN  (CHOOSE t \in OutcomeTable : t[1] = key)[2]

\* what a caller of call() observes: the result returned, or that it raised
Returned(result) == [ok |-> TRUE, result |-> result]
Raised == [ok |-> FALSE, result |-> EmptyDict]
Observed(o) == IF o.ok THEN Returned(o.result) ELSE Raised
ObservedTable == {<<t[1], {Observed(o) : o \in t[2]}>> : t \in OutcomeTable}
Await(self, method) ==
    LET key == <<self.username, self.password, self.auth_scheme, method>>
    IN  (CHOOSE t \in ObservedTable : t[1] = key)[2]

(***************************************************************************)
(* Queue messages                                                          *)
(***************************************************************************)
\* a message body: its raw form and, for a JSON object, the object
Body(raw, obj) == [raw |-> raw, obj |-> obj]
MsgMalformed == Body("malformed", EmptyDict)      \* not JSON (or not UTF-8)
MsgEmpty == Body("empty", EmptyDict)              \* zero-length body
MsgArray == Body("array", EmptyDict)              \* valid JSON that is no object
MsgDeposit == Body("object", [type |-> "deposit"])
MsgWithdraw == Body("object", [type |-> "withdraw", to_address |-> "T", amount_xmr |-> "1"])
MsgWithdrawFrom ==
    Body("object", [type |-> "withdraw", to_address |-> "T", amount_xmr |-> "2",
                    from_address |-> "S", priority |-> "1"])
MsgWithdrawNoAmount ==
    Body("object", [type |-> "withdraw", to_address |-> "T", from_address |-> "S"])
MsgWithdrawNoTo == Body("object", [type |-> "withdraw", amount_xmr |-> "1"])
MsgWithdrawBadAmount ==
    Body("object", [type |-> "withdraw", to_address |-> "T", amount_xmr |-> "abc"])
Messages == {MsgMalformed, MsgEmpty, MsgArray, MsgDeposit, MsgWithdraw, MsgWithdrawFrom,
             MsgWithdrawNoAmount, MsgWithdrawNoTo, MsgWithdrawBadAmount}

\* json.loads(body.decode("utf-8")) if body else {}: raises on malformed text
JsonLoads(b) ==
    CASE b.raw = "empty" -> [ok |-> TRUE, object |-> TRUE, obj |-> EmptyDict]
      [] b.raw = "malformed" -> [ok |-> FALSE, object |-> FALSE, obj |-> EmptyDict]
      [] b.raw = "array" -> [ok |-> TRUE, object |-> FALSE, obj |-> EmptyDict]
      [] OTHER -> [ok |-> TRUE, object |-> TRUE, obj |-> b.obj]

\* float(amount_xmr): the amount in micro-XMR; raises ValueError on non-numeric text
IsNumeric(t) == t \in {"1", "2"}
ToFloat(t) == IF t = "1" THEN 1000000 ELSE 2000000

\* MoneroRPC.xmr_to_atomic: round(x * 10^12); 10^12 exceeds TLC's integers, so the atomic
\* amount is kept as two limbs in base 10^6 (x is in micro-XMR, its atomic value x * 10^6)
xmr_to_atomic(x) == [hi |-> x, lo |-> 0]

PassKeys == {"priority", "ring_size", "do_not_relay", "payment_id", "unlock_time"}
\* for k in [...]: if k in obj: params[k] = obj[k]
Passthrough(obj, params) ==
    [k \in (DOMAIN params) \cup (DOMAIN obj \cap PassKeys) |->
        IF k \in DOMAIN obj \cap PassKeys THEN obj[k] ELSE params[k]]

\* one wallet RPC call as issued by a handler: method, params, whether it returned (ok)
\* and what it returned
RpcEv(method, params, o) ==
    [method |-> method, params |-> params, ok |-> o.ok, result |-> o.result]

\* major / minor of a get_address_index result (0 when absent)
MajorOf(idx) == Get(Get(idx, "index", EmptyDict), "major", 0)
MinorOf(idx) == Get(Get(idx, "index", EmptyDict), "minor", 0)

(***************************************************************************)
(* _process_withdraw (main.py:75-104)                                      *)
(***************************************************************************)
\* mutant: a transfer_split call that raised is swallowed
WithdrawDone_Swallowed(oTx) == TRUE
\* main.py:102-103: _process_withdraw returns when the transfer_split call returned
\* and res.get did not raise (the result is a mapping)
WithdrawDone(oTx) == oTx.ok /\ IsDict(oTx.result)

\* mutant: the indices are bound whether or not the resolution raised
IndicesBound_Always(resolve, oIdx) == resolve
\* main.py:87-96: the indices are bound when from_address is given and lines 89-93
\* did not raise (the call returned, and returned a mapping)
IndicesBound(resolve, oIdx) == resolve /\ oIdx.ok /\ IsDict(oIdx.result)

\* mutant: the required fields are not checked before the wallet is called
InvalidWithdraw_Unchecked(to_address, amount_xmr) == FALSE
\* main.py:80: `not to_address or amount_xmr is None`
InvalidWithdraw(to_address, amount_xmr) == Falsy(to_address) \/ amount_xmr = None

\* The withdrawal processor on message object obj, the wallet answering the
\* get_address_index call with outcome oIdx and the transfer_split call with oTx.
\* Yields the RPC calls issued in order and whether it returned (ok) or raised.
_process_withdraw(obj, oIdx, oTx) ==
    LET to_address == Get(obj, "to_address", None)
        amount_xmr == Get(obj, "amount_xmr", None)
        from_address == Get(obj, "from_address", None)
    IN  IF InvalidWithdraw(to_address, amount_xmr)
        THEN [ok |-> FALSE, calls |-> <<>>]
        ELSE IF ~IsNumeric(amount_xmr)
        THEN [ok |-> FALSE, calls |-> <<>>]
        ELSE
        LET base == [destinations |-> <<[amount |-> xmr_to_atomic(ToFloat(amount_xmr)),
                                         address |-> to_address]>>,
                     get_tx_keys |-> TRUE]
            resolve == ~Falsy(from_address)
            idxCall == RpcEv("get_address_index", [address |-> from_address], oIdx)
            \* a raise in lines 89-93 (the call, or idx.get on None) is caught at line 94
            bound == IF IndicesBound(resolve, oIdx)
                     THEN [k \in DOMAIN base \cup {"account_index", "subaddr_indices"} |->
                             CASE k = "account_index" -> MajorOf(oIdx.result)
                               [] k = "subaddr_indices" -> <<MinorOf(oIdx.result)>>
                               [] OTHER -> base[k]]
                     ELSE base
            params == Passthrough(obj, bound)
            txCall == RpcEv("transfer_split", params, oTx)
        \* line 103 raises AttributeError when the call returned None
        IN  [ok |-> WithdrawDone(oTx),
             calls |-> (IF resolve THEN <<idxCall>> ELSE <<>>) \o <<txCall>>]

\* main.py:121-125: parse the body and dispatch it
Dispatch(b, oIdx, oTx) ==
    LET j == JsonLoads(b)
    IN  IF ~j.ok THEN [ok |-> FALSE, calls |-> <<>>]          \* json.loads raises
        ELSE IF ~j.object THEN [ok |-> FALSE, calls |-> <<>>]  \* obj.get raises AttributeError
        ELSE IF Get(j.obj, "type", None) = "withdraw"
             THEN _process_withdraw(j.obj, oIdx, oTx)
             ELSE [ok |-> TRUE, calls |-> <<>>]                \* logged as unknown_message

\* the wallet is asked only by the calls the dispatch issues: the outcomes of the
\* others are not drawn
NoOutcome == Raised
NeedsIdx(b) ==
    LET p == Dispatch(b, NoOutcome, NoOutcome)
    IN  Len(p.calls) > 0 /\ p.calls[1].method = "get_address_index"
NeedsTx(b, oIdx) ==
    LET p == Dispatch(b, oIdx, NoOutcome)
    IN  Len(p.calls) > 0 /\ p.calls[Len(p.calls)].method = "transfer_split"

(***************************************************************************)
(* _drain_queue_once (main.py:107-140) and _consumer_loop (main.py:143-149) *)
(***************************************************************************)
\* mutant: startup starts a second thread on _consumer_loop
Drainers_Two == {"consumer", "consumer2"}
\* the threads that execute _drain_queue_once: the one thread on_startup starts on
\* _consumer_loop (main.py:46-47); no request handler calls _drain_queue_once
Drainers == {"consumer"}

\* the locals of one execution of _drain_queue_once, before it starts
FreshCycle(cycles) ==
    [conn |-> "none",       \* the pika connection: none, open, closed
     cur |-> 0,             \* id of the message fetched last (method.delivery_tag)
     processed |-> 0,
     exc |-> FALSE,         \* an exception is propagating out of the try block
     unacked |-> <<>>,      \* delivered on this channel and neither acked nor requeued
     trace |-> <<>>,        \* the broker calls of this cycle, in order
     calls |-> <<>>,        \* the wallet RPC calls made for the message fetched last
     cycles |-> cycles]     \* cycles this executor has started
Idle(pc) == [pc |-> pc] @@ FreshCycle(0)

\* an entry of the trace: a broker call (get, ack, nack) with the message id it concerns
\* (a get that found no message has id 0); ok tells whether it returned or raised
BrokerEv(op, msg, ok) == [op |-> op, msg |-> msg, ok |-> ok]

Set(p, fields) == drain' = [drain EXCEPT ![p] = fields @@ drain[p]]
Logged(p, evs) == drain[p].trace \o evs

\* on_startup (main.py:44-53): the consumer thread is started when RABBITMQ_URL is set
OnStartup ==
    /\ \A p \in Drainers : drain[p].pc = "init"
    /\ drain' = [p \in Drainers |->
                    [drain[p] EXCEPT !.pc = IF rabbitUrl THEN "call" ELSE "disabled"]]
    /\ UNCHANGED <<rpc, lastCall, rabbitUrl, msgs, queue, transfers, nacks, ledger, reqs, resp, callers, issued>>

\* main.py:108-111: return at once without RABBITMQ_URL, else open the connection
DrainConnect(p) ==
    /\ drain[p].pc = "call"
    /\ drain[p].cycles < MaxCycles
    /\ \E fails \in BOOLEAN :
         drain' = [drain EXCEPT ![p] =
            [pc |-> IF ~rabbitUrl THEN "returned" ELSE IF fails THEN "raised" ELSE "channel"]
            @@ [conn |-> IF rabbitUrl /\ ~fails THEN "open" ELSE "none"]
            @@ FreshCycle(drain[p].cycles + 1)]
    /\ UNCHANGED <<rpc, lastCall, rabbitUrl, msgs, queue, transfers, nacks, ledger, reqs, resp, callers, issued>>

\* main.py:112: connection.channel(), outside the try block
DrainChannel(p) ==
    /\ drain[p].pc = "channel"
    /\ \E fails \in BOOLEAN : Set(p, [pc |-> IF fails THEN "raised" ELSE "declare"])
    /\ UNCHANGED <<rpc, lastCall, rabbitUrl, msgs, queue, transfers, nacks, ledger, reqs, resp, callers, issued>>

\* main.py:113-114: ch.queue_declare(durable=True), outside the try block
DrainDeclare(p) ==
    /\ drain[p].pc = "declare"
    /\ \E fails \in BOOLEAN : Set(p, [pc |-> IF fails THEN "raised" ELSE "get"])
    /\ UNCHANGED <<rpc, lastCall, rabbitUrl, msgs, queue, transfers, nacks, ledger, reqs, resp, callers, issued>>

\* main.py:117-119: ch.basic_get(auto_ack=False); no message ends the loop
DrainGet(p) ==
    /\ drain[p].pc = "get"
    /\ \E fails \in BOOLEAN :
         IF fails
         THEN /\ Set(p, [pc |-> "close", exc |-> TRUE,
                         trace |-> Logged(p, <<BrokerEv("get", 0, FALSE)>>)])
              /\ UNCHANGED queue
         ELSE IF queue = <<>>
         THEN /\ Set(p, [pc |-> "close",
                         trace |-> Logged(p, <<BrokerEv("get", 0, TRUE)>>)])
              /\ UNCHANGED queue
         ELSE /\ Set(p, [pc |-> "dispatch", cur |-> Head(queue), calls |-> <<>>,
                         unacked |-> Append(drain[p].unacked, Head(queue)),
                         trace |-> Logged(p, <<BrokerEv("get", Head(queue), TRUE)>>)])
              /\ queue' = Tail(queue)
    /\ UNCHANGED <<rpc, lastCall, rabbitUrl, msgs, transfers, nacks, ledger, reqs, resp, callers, issued>>

\* mutant: the except clause skips the message without a nack and the loop goes on
AfterDispatch_SkipFailed(ok) == IF ok THEN "ack" ELSE "get"
\* main.py:120-131: a dispatch that returned goes on to basic_ack, one that raised to
\* the except clause and its basic_nack
AfterDispatch(ok) == IF ok THEN "ack" ELSE "nack"

\* main.py:120-125 (and 128-129 when it raises): parse and dispatch the message
DrainDispatch(p) ==
    /\ drain[p].pc = "dispatch"
    /\ LET b == msgs[drain[p].cur]
       IN  \E oIdx \in (IF NeedsIdx(b) THEN Await(rpc, "get_address_index") ELSE {NoOutcome}) :
           \E oTx \in (IF NeedsTx(b, oIdx) THEN Await(rpc, "transfer_split") ELSE {NoOutcome}) :
             LET r == Dispatch(b, oIdx, oTx)
             IN  /\ Set(p, [pc |-> AfterDispatch(r.ok), calls |-> r.calls])
                 /\ rpc' = [rpc EXCEPT !.id = @ + Len(r.calls)]
                 /\ transfers' =
                      IF \E i \in 1..Len(r.calls) :
                            r.calls[i].method = "transfer_split" /\ r.calls[i].ok
                      THEN [transfers EXCEPT ![drain[p].cur] = @ + 1]
                      ELSE transfers
    /\ UNCHANGED <<lastCall, rabbitUrl, msgs, queue, nacks, ledger, reqs, resp, callers, issued>>

Without(seq, m) == SelectSeq(seq, LAMBDA x : x # m)

\* mutant: the acknowledged message falls through to the except handler
AfterAck_FallThrough(fails) == "nack"
\* main.py:126-128: after basic_ack the loop continues; if it raised, the handler runs
AfterAck(fails) == IF fails THEN "nack" ELSE "get"

\* mutant: no break after the nack, the loop fetches the next message
AfterNack_Continue(fails) == IF fails THEN "close" ELSE "get"
\* main.py:131-134: break after basic_nack (or its exception) leads to the finally block
AfterNack(fails) == "close"

\* mutant: the finally block does not close the connection
AfterClose_Leak(conn) == conn
\* main.py:135-136: connection.close()
AfterClose(conn) == "closed"

\* main.py:126-127: ch.basic_ack; when it raises, the broker may or may not have
\* received the acknowledgement
DrainAck(p) ==
    /\ drain[p].pc = "ack"
    /\ \E fails \in BOOLEAN, reached \in BOOLEAN :
         /\ ~fails => reached
         /\ Set(p, [pc |-> AfterAck(fails),
                    processed |-> IF fails THEN drain[p].processed ELSE drain[p].processed + 1,
                    unacked |-> IF reached THEN Without(drain[p].unacked, drain[p].cur)
                                ELSE drain[p].unacked,
                    trace |-> Logged(p, <<BrokerEv("ack", drain[p].cur, ~fails)>>)])
    /\ UNCHANGED <<rpc, lastCall, rabbitUrl, msgs, queue, transfers, nacks, ledger, reqs, resp, callers, issued>>

\* main.py:128-133: ch.basic_nack(requeue=True), then break; when it raises the
\* exception leaves the handler.  A requeued message returns to the head of the queue.
DrainNack(p) ==
    /\ drain[p].pc = "nack"
    /\ \E fails \in BOOLEAN, reached \in BOOLEAN :
         /\ ~fails => reached
         /\ LET held == reached /\ \E i \in 1..Len(drain[p].unacked) : drain[p].unacked[i] = drain[p].cur
            IN  /\ Set(p, [pc |-> AfterNack(fails), exc |-> fails,
                           unacked |-> IF held THEN Without(drain[p].unacked, drain[p].cur)
                                       ELSE drain[p].unacked,
                           trace |-> Logged(p, <<BrokerEv("nack", drain[p].cur, ~fails)>>)])
                /\ queue' = IF held THEN <<drain[p].cur>> \o queue ELSE queue
    /\ nacks' = [nacks EXCEPT ![drain[p].cur] = @ + 1]
    /\ UNCHANGED <<rpc, lastCall, rabbitUrl, msgs, transfers, ledger, reqs, resp, callers, issued>>

\* main.py:134-140: finally connection.close() (its own failure is swallowed), then
\* return or let the exception out.  The broker requeues what the channel left unacked.
DrainClose(p) ==
    /\ drain[p].pc = "close"
    /\ Set(p, [pc |-> IF drain[p].exc THEN "raised" ELSE "returned",
               conn |-> AfterClose(drain[p].conn), unacked |-> <<>>])
    /\ queue' = drain[p].unacked \o queue
    /\ UNCHANGED <<rpc, lastCall, rabbitUrl, msgs, transfers, nacks, ledger, reqs, resp, callers, issued>>

\* mutant: an exception of the cycle leaves the loop and ends the thread
AfterCycle_DiesOnRaise(pc) == IF pc = "raised" THEN "dead" ELSE "call"
\* main.py:144-149: `except Exception` catches what the cycle raised, the sleep
\* follows in both cases and `while True` calls the next cycle
AfterCycle(pc) == "call"

\* main.py:144-149: an exception of the cycle is logged; sleep; call the next cycle
ConsumerLoop(p) ==
    /\ drain[p].pc \in {"returned", "raised"}
    /\ Set(p, [pc |-> AfterCycle(drain[p].pc)] @@ FreshCycle(drain[p].cycles))
    /\ UNCHANGED <<rpc, lastCall, rabbitUrl, msgs, queue, transfers, nacks, ledger, reqs, resp, callers, issued>>

DrainStep(p) ==
    \/ DrainConnect(p)
    \/ DrainChannel(p)
    \/ DrainDeclare(p)
    \/ DrainGet(p)
    \/ DrainDispatch(p)
    \/ DrainAck(p)
    \/ DrainNack(p)
    \/ DrainClose(p)

(***************************************************************************)
(* Specification of the consumer thread: SpecDrain                         *)
(***************************************************************************)

\* the client main.py builds from its default environment (no credentials, basic)
DefaultClient == MoneroRPC(None, None, sBasic)

\* the message bodies the consumer specification publishes
DrainMessages == {MsgMalformed, MsgDeposit, MsgWithdraw}

\* the queue holds up to MaxQueue published messages, ids 1..n in queue order
InitQueue(bodies, n) ==
    /\ msgs \in [1..n -> bodies]
    /\ queue = [i \in 1..n |-> i]
    /\ transfers = [i \in 1..n |-> 0]
    /\ nacks = [i \in 1..n |-> 0]

InitDrain ==
    /\ rpc = DefaultClient
    /\ lastCall = NoCall
    /\ rabbitUrl \in BOOLEAN
    /\ \E n \in 0..MaxQueue : InitQueue(DrainMessages, n)
    /\ drain = [p \in Drainers |-> Idle("init")]
    /\ ledger = <<>>
    /\ reqs = <<>>
    /\ resp = [route |-> "none"]
    /\ callers = NoCallers
    /\ issued = <<>>

NextDrain ==
    \/ OnStartup
    \/ \E p \in Drainers : DrainStep(p)
    \/ \E p \in Drainers : ConsumerLoop(p)

SpecDrain == InitDrain /\ [][NextDrain]_vars

(***************************************************************************)
(* The consumer thread on a short queue of any kind of message:            *)
(* SpecMessages                                                            *)
(***************************************************************************)
InitMessages ==
    /\ rpc = DefaultClient
    /\ lastCall = NoCall
    /\ rabbitUrl = TRUE
    /\ \E n \in 0..MaxShortQueue : InitQueue(Messages, n)
    /\ drain = [p \in Drainers |-> Idle("init")]
    /\ ledger = <<>>
    /\ reqs = <<>>
    /\ resp = [route |-> "none"]
    /\ callers = NoCallers
    /\ issued = <<>>

SpecMessages == InitMessages /\ [][NextDrain]_vars

\* the consumer thread is scheduled: every broker call, wallet call and sleep of
\* main.py:107-149 returns or raises, and the thread then takes its next step
SpecLoop == SpecMessages /\ WF_vars(NextDrain)

(***************************************************************************)
(* The HTTP facade (main.py:152-379)                                       *)
(***************************************************************************)
\* the routes main.py registers on the application
Routes == {"GET /healthz", "GET /primary_address", "GET /addresses", "POST /addresses",
           "GET /addresses/by-label/{label}", "GET /addresses/by-address/{address}",
           "GET /balance/{address}", "GET /balance/label/{label}",
           "POST /transfer", "POST /transfer_split", "POST /sweep_all"}

\* a response: status and body; calls are the wallet RPC calls the handler issued
Response(status, body, calls) == [status |-> status, body |-> body, calls |-> calls]
\* raise HTTPException(status_code, detail)
HTTPException(status, detail, calls) == Response(status, [detail |-> detail], calls)
\* an exception no handler catches: the server answers 500
Unhandled(calls) == Response(500, [detail |-> "Internal Server Error"], calls)

\* for k in keys: if k in payload: params[k] = payload[k]
PassthroughKeys(keys, payload, params) ==
    [k \in (DOMAIN params) \cup (DOMAIN payload \cap keys) |->
        IF k \in DOMAIN payload \cap keys THEN payload[k] ELSE params[k]]

\* mutant: the except clause logs and goes on, as _process_withdraw does
ResolveRaises_Swallowed(oIdx) == FALSE
\* main.py:287-295: the try block raises when the call raises or idx is None (idx.get),
\* and the except clause turns that into the 400
ResolveRaises(oIdx) == ~oIdx.ok \/ ~IsDict(oIdx.result)

\* transfer (main.py:275-303) and transfer_split (main.py:306-333) differ in the wallet
\* method and in the name of the key flag
TransferHandler(method, keyFlag, payload, oIdx, oTx) ==
    LET to_address == Get(payload, "to_address", None)
        amount_xmr == Get(payload, "amount_xmr", None)
        from_address == Get(payload, "from_address", None)
    IN  IF Falsy(to_address) \/ amount_xmr = None
        THEN HTTPException(400, "to_address and amount_xmr are required", <<>>)
        ELSE IF ~IsNumeric(amount_xmr)
        THEN Unhandled(<<>>)                       \* float() raises outside any try
        ELSE
        LET base == (keyFlag :> TRUE) @@
                    [destinations |-> <<[amount |-> xmr_to_atomic(ToFloat(amount_xmr)),
                                         address |-> to_address]>>]
            resolve == ~Falsy(from_address)
            idxCall == RpcEv("get_address_index", [address |-> from_address], oIdx)
            bound == IF resolve
                     THEN [account_index |-> MajorOf(oIdx.result),
                           subaddr_indices |-> <<MinorOf(oIdx.result)>>] @@ base
                     ELSE base
            params == PassthroughKeys(PassKeys, payload, bound)
            txCall == RpcEv(method, params, oTx)
            before == IF resolve THEN <<idxCall>> ELSE <<>>
        IN  IF resolve /\ ResolveRaises(oIdx)
            THEN HTTPException(400, "Failed to resolve from_address", <<idxCall>>)
            ELSE IF oTx.ok
            THEN Response(200, oTx.result, before \o <<txCall>>)
            ELSE HTTPException(500, "rpc", before \o <<txCall>>)

transfer(payload, oIdx, oTx) == TransferHandler("transfer", "get_tx_key", payload, oIdx, oTx)
transfer_split(payload, oIdx, oTx) ==
    TransferHandler("transfer_split", "get_tx_keys", payload, oIdx, oTx)

\* primary_address (main.py:161-171)
primary_address(oPa) ==
    LET getCall == RpcEv("get_address", [account_index |-> 0, address_index |-> <<0>>], oPa)
    IN  IF ~oPa.ok \/ ~IsDict(oPa.result)
        THEN HTTPException(500, "rpc", <<getCall>>)     \* the call, or res.get on None
        ELSE
        LET addrs == Get(oPa.result, "addresses", <<>>)
        IN  IF addrs = <<>>
            THEN HTTPException(500, "Wallet returned no primary address", <<getCall>>)
            ELSE Response(200, [account_index |-> 0, address_index |-> 0,
                                address |-> Get(addrs[1], "address", None)], <<getCall>>)

\* MoneroRPC.atomic_to_xmr: the float a / 10^12, kept as the atomic amount and its scale
atomic_to_xmr(a) == [atomic |-> a, decimals |-> 12]

RECURSIVE SumSeq(_)
SumSeq(s) == IF s = <<>> THEN 0 ELSE Head(s) + SumSeq(Tail(s))

SweepPassKeys == {"priority", "do_not_relay", "ring_size", "unlock_time"}

\* sweep_all (main.py:336-379): the wallet answers the get_address_index call with oIdx,
\* the get_address call of primary_address with oPa and the sweep_all call with oSw
sweep_all(payload, oIdx, oPa, oSw) ==
    LET from_address == Get(payload, "from_address", None)
        given == Get(payload, "to_address", None)
        idxCall == RpcEv("get_address_index", [address |-> from_address], oIdx)
    IN  IF Falsy(from_address)
        THEN HTTPException(400, "from_address is required", <<>>)
        ELSE IF ~oIdx.ok \/ ~IsDict(oIdx.result)
        THEN HTTPException(500, "rpc", <<idxCall>>)
        ELSE
        LET pa == primary_address(oPa)
            lookup == IF Falsy(given) THEN pa.calls ELSE <<>>
        IN  IF Falsy(given) /\ pa.status # 200
            THEN Response(pa.status, pa.body, <<idxCall>> \o lookup)  \* except HTTPException: raise
            ELSE
            LET to_address == IF Falsy(given) THEN pa.body.address ELSE given
                params == PassthroughKeys(SweepPassKeys, payload,
                              [account_index |-> MajorOf(oIdx.result),
                               subaddr_indices |-> <<MinorOf(oIdx.result)>>,
                               address |-> to_address])
                calls == <<idxCall>> \o lookup \o <<RpcEv("sweep_all", params, oSw)>>
            IN  IF ~oSw.ok \/ ~IsDict(oSw.result)
                THEN HTTPException(500, "rpc", calls)
                ELSE
                LET res == oSw.result
                    first == Get(res, "amount_list", <<>>)
                    amount_list == IF first # <<>> THEN first ELSE Get(res, "amounts", <<>>)
                IN  Response(200,
                        [tx_hash_list |-> Get(res, "tx_hash_list", <<>>),
                         amount_list_atomic |-> amount_list,
                         fee_list_atomic |-> Get(res, "fee_list", <<>>),
                         total_xmr |-> atomic_to_xmr(SumSeq(amount_list))],
                        calls)

\* the request bodies explored
TransferPayloads ==
    {EmptyDict, [to_address |-> "T"], [amount_xmr |-> "1"], [to_address |-> "", amount_xmr |-> "1"],
     [to_address |-> "T", amount_xmr |-> "1"], [to_address |-> "T", amount_xmr |-> "abc"],
     [to_address |-> "T", amount_xmr |-> "2", from_address |-> "S", priority |-> "1"],
     [amount_xmr |-> "1", from_address |-> "S"]}
SweepPayloads ==
    {EmptyDict, [to_address |-> "T"], [from_address |-> "S"],
     [from_address |-> "S", to_address |-> ""],
     [from_address |-> "S", to_address |-> "T", priority |-> "1"]}

\* the wallet is asked only by the calls a handler issues
Asked(needed, method) == IF needed THEN Await(rpc, method) ELSE {NoOutcome}
Issues(r, method) == \E i \in 1..Len(r.calls) : r.calls[i].method = method

\* a request served from arrival to response
Serve(route, payload, r) ==
    /\ resp' = [route |-> route, payload |-> payload, status |-> r.status, body |-> r.body,
                calls |-> r.calls]
    /\ rpc' = [rpc EXCEPT !.id = @ + Len(r.calls)]
    /\ UNCHANGED <<lastCall, rabbitUrl, msgs, queue, drain, transfers, nacks, ledger, reqs, callers, issued>>

PostTransfer ==
    /\ rpc.id < MaxServed
    /\ \E payload \in TransferPayloads :
       \E oIdx \in Asked(Issues(transfer(payload, NoOutcome, NoOutcome), "get_address_index"),
                         "get_address_index") :
       \E oTx \in Asked(Issues(transfer(payload, oIdx, NoOutcome), "transfer"), "transfer") :
          Serve("POST /transfer", payload, transfer(payload, oIdx, oTx))

PostTransferSplit ==
    /\ rpc.id < MaxServed
    /\ \E payload \in TransferPayloads :
       \E oIdx \in Asked(Issues(transfer_split(payload, NoOutcome, NoOutcome),
                                "get_address_index"), "get_address_index") :
       \E oTx \in Asked(Issues(transfer_split(payload, oIdx, NoOutcome), "transfer_split"),
                        "transfer_split") :
          Serve("POST /transfer_split", payload, transfer_split(payload, oIdx, oTx))

PostSweepAll ==
    /\ rpc.id < MaxServed
    /\ \E payload \in SweepPayloads :
       \E oIdx \in Asked(Issues(sweep_all(payload, NoOutcome, NoOutcome, NoOutcome),
                                "get_address_index"), "get_address_index") :
       \E oPa \in Asked(Issues(sweep_all(payload, oIdx, NoOutcome, NoOutcome), "get_address"),
                        "get_address") :
       \E oSw \in Asked(Issues(sweep_all(payload, oIdx, oPa, NoOutcome), "sweep_all"),
                        "sweep_all") :
          Serve("POST /sweep_all", payload, sweep_all(payload, oIdx, oPa, oSw))

GetPrimaryAddress ==
    /\ rpc.id < MaxServed
    /\ \E oPa \in Await(rpc, "get_address") :
          Serve("GET /primary_address", EmptyDict, primary_address(oPa))

\* a request line no route matches: the framework answers 404 and runs no handler
RequestLines == Routes \cup {"POST /admin/drain", "GET /admin/queue"}
NotFound ==
    \E line \in RequestLines \ Routes :
        Serve(line, EmptyDict, Response(404, [detail |-> "Not Found"], <<>>))

InitApi ==
    /\ rpc = DefaultClient
    /\ lastCall = NoCall
    /\ rabbitUrl \in BOOLEAN
    /\ InitQueue({}, 0)
    /\ drain = [p \in Drainers |-> Idle("init")]
    /\ ledger = <<>>
    /\ reqs = <<>>
    /\ resp = [route |-> "none"]
    /\ callers = NoCallers
    /\ issued = <<>>

NextApi ==
    \/ PostTransfer
    \/ PostTransferSplit
    \/ PostSweepAll
    \/ GetPrimaryAddress
    \/ NotFound

SpecApi == InitApi /\ [][NextApi]_vars

(***************************************************************************)
(* The address ledger (models.py) and POST /addresses (main.py:193-211)    *)
(***************************************************************************)
DEFAULT_ACCOUNT_INDEX == 0

\* int(v) on the text of a JSON number or numeric string; raises ValueError otherwise
IsIntText(v) == v \in {"0", "1", "2"}
IntOf(v) == CASE v = "0" -> 0 [] v = "1" -> 1 [] OTHER -> 2

\* models.py:5-11: a row of addressmap; the id is assigned by the table on insertion
AddressMap(user_id, address, label, account_index, address_index) ==
    [id |-> 0, user_id |-> user_id, address |-> address, label |-> label,
     account_index |-> account_index, address_index |-> address_index]

\* mutant: the table is created without its unique constraint
Insert_NoConstraint(rows, row) ==
    [ok |-> TRUE, rows |-> Append(rows, [row EXCEPT !.id = Len(rows) + 1])]
\* session.add(row); session.commit() under UniqueConstraint("address") (models.py:13-15):
\* the commit raises IntegrityError and inserts nothing when the address is taken
Insert(rows, row) ==
    IF \E i \in 1..Len(rows) : rows[i].address = row.address
    THEN [ok |-> FALSE, rows |-> rows]
    ELSE [ok |-> TRUE, rows |-> Append(rows, [row EXCEPT !.id = Len(rows) + 1])]

\* mutant: the user_id check is dropped
NoUserId_Unchecked(user_id) == FALSE
\* main.py:196: "if not user_id" on None or an integer
NoUserId(user_id) == user_id = None \/ user_id = "0"

\* a request slot before its request arrives
NoRequest == [pc |-> "idle", payload |-> EmptyDict, status |-> 0, body |-> EmptyDict,
              calls |-> <<>>]
Answer(slot, r) == [pc |-> "done", payload |-> slot.payload, status |-> r.status,
                    body |-> r.body, calls |-> r.calls]

\* main.py:195-200: up to the await of the create_address call
create_address_begin(payload) ==
    LET raw == Get(payload, "user_id", None)
        label == Get(payload, "label", None)
        params == IF ~Falsy(label)
                  THEN [account_index |-> DEFAULT_ACCOUNT_INDEX, label |-> label]
                  ELSE [account_index |-> DEFAULT_ACCOUNT_INDEX]
    IN  IF raw # None /\ ~IsIntText(raw)
        THEN [pc |-> "done", payload |-> payload] @@ Unhandled(<<>>)   \* int() raises
        ELSE IF NoUserId(raw)
        THEN [pc |-> "done", payload |-> payload]
             @@ HTTPException(400, "user_id is required", <<>>)
        ELSE [pc |-> "await", payload |-> payload, status |-> 0, body |-> EmptyDict,
              calls |-> <<[method |-> "create_address", params |-> params]>>]

\* main.py:200-211: from the answer o of the wallet to the response, on the table rows
create_address_finish(slot, o, rows) ==
    LET payload == slot.payload
        raw == Get(payload, "user_id", None)
        user_id == IF raw = None THEN 0 ELSE IntOf(raw)
        label == Get(payload, "label", None)
        calls == <<RpcEv("create_address", slot.calls[1].params, o)>>
    IN  IF ~o.ok \/ ~IsDict(o.result)
        THEN [rows |-> rows, resp |-> HTTPException(500, "rpc", calls)]
        ELSE
        LET address == Get(o.result, "address", None)
            address_index == Get(o.result, "address_index", 0)
            row == AddressMap(user_id, address, label, DEFAULT_ACCOUNT_INDEX, address_index)
            ins == Insert(rows, row)
        IN  IF Falsy(address)
            THEN [rows |-> rows,
                  resp |-> HTTPException(500, "RPC create_address returned no address", calls)]
            ELSE IF ~ins.ok
            THEN [rows |-> ins.rows, resp |-> HTTPException(500, "IntegrityError", calls)]
            ELSE [rows |-> ins.rows,
                  resp |-> Response(200,
                              [id |-> Len(ins.rows), user_id |-> user_id, address |-> address,
                               label |-> label, account_index |-> DEFAULT_ACCOUNT_INDEX,
                               address_index |-> address_index], calls)]

CreatePayloads ==
    {EmptyDict, [label |-> "L"], [user_id |-> None], [user_id |-> "0"], [user_id |-> "x"],
     [user_id |-> "1"], [user_id |-> "2", label |-> "L"]}

\* POST /addresses arrives at a free slot and runs to its await (or to its response)
CreateAddressBegin(s) ==
    /\ reqs[s].pc = "idle"
    /\ \E payload \in CreatePayloads :
         LET next == create_address_begin(payload)
         IN  /\ reqs' = [reqs EXCEPT ![s] = next]
             /\ rpc' = [rpc EXCEPT !.id = @ + Len(next.calls)]
    /\ UNCHANGED <<lastCall, rabbitUrl, msgs, queue, drain, transfers, nacks, ledger, resp, callers, issued>>

\* the wallet answers and the handler runs to its response
CreateAddressFinish(s) ==
    /\ reqs[s].pc = "await"
    /\ \E o \in Await(rpc, "create_address") :
         LET end == create_address_finish(reqs[s], o, ledger)
         IN  /\ ledger' = end.rows
             /\ reqs' = [reqs EXCEPT ![s] = Answer(reqs[s], end.resp)]
    /\ UNCHANGED <<rpc, lastCall, rabbitUrl, msgs, queue, drain, transfers, nacks, resp, callers, issued>>

InitLedger ==
    /\ rpc = DefaultClient
    /\ lastCall = NoCall
    /\ rabbitUrl = FALSE
    /\ InitQueue({}, 0)
    /\ drain = [p \in Drainers |-> Idle("init")]
    /\ ledger = <<>>
    /\ reqs = [s \in 1..MaxRequests |-> NoRequest]
    /\ resp = [route |-> "none"]
    /\ callers = NoCallers
    /\ issued = <<>>

NextLedger == \E s \in 1..MaxRequests : CreateAddressBegin(s) \/ CreateAddressFinish(s)

SpecLedger == InitLedger /\ [][NextLedger]_vars

(***************************************************************************)
(* The consumer thread beside the request handlers: SpecApp                *)
(***************************************************************************)
AppMessages == {MsgDeposit, MsgWithdraw}

InitApp ==
    /\ rpc = DefaultClient
    /\ lastCall = NoCall
    /\ rabbitUrl \in BOOLEAN
    /\ \E n \in 0..MaxShortQueue : InitQueue(AppMessages, n)
    /\ drain = [p \in Drainers |-> Idle("init")]
    /\ ledger = <<>>
    /\ reqs = <<>>
    /\ resp = [route |-> "none"]
    /\ callers = NoCallers
    /\ issued = <<>>

NextApp ==
    \/ NextDrain
    \/ NotFound
    \/ GetPrimaryAddress

SpecApp == InitApp /\ [][NextApp]_vars

(***************************************************************************)
(* The shared client under two threads: SpecShared.  call() is taken apart *)
(* into the steps of rpc.py:25-26 that read and write self._id, which no   *)
(* lock protects, so the steps of the two threads interleave freely.       *)
(***************************************************************************)
\* the threads that call app.state.rpc (main.py:56-57): the consumer thread, which
\* runs call() in an event loop of its own (main.py:61-72, 89, 102), and the thread
\* of the server's event loop, where the request handlers run
ClientThreads == {"consumer", "eventloop"}

\* the call each thread makes: transfer_split for a withdraw message (main.py:102),
\* get_address for GET /primary_address (main.py:165)
ThreadCall(t) ==
    IF t = "consumer"
    THEN LET w == _process_withdraw(MsgWithdraw.obj, NoOutcome, NoOutcome)
         IN  [method |-> "transfer_split", params |-> <<w.calls[1].params>>]
    ELSE [method |-> "get_address",
          params |-> <<[account_index |-> 0, address_index |-> <<0>>]>>]

\* the answers of the wallet server explored with two threads
SharedResponses ==
    {NetErr, Http(200, EmptyDict, JsonBody(EmptyDict)),
     Http(401, [www_authenticate |-> ChallengeDigest], NotJson)}

\* a thread outside call(): tmp is the value of self._id it read for the increment,
\* id the value it put into its payload, done the calls it has finished
OutsideCall == [pc |-> "idle", tmp |-> 0, id |-> 0, done |-> 0]

InitShared ==
    /\ rpc = DefaultClient
    /\ lastCall = NoCall
    /\ rabbitUrl = TRUE
    /\ InitQueue({MsgWithdraw}, 0)
    /\ drain = [p \in Drainers |-> Idle("init")]
    /\ ledger = <<>>
    /\ reqs = <<>>
    /\ resp = [route |-> "none"]
    /\ callers = [t \in ClientThreads |-> OutsideCall]
    /\ issued = <<>>

\* rpc.py:25, `self._id += 1`: the read of self._id
CallLoad(t) ==
    /\ callers[t].pc = "idle"
    /\ callers[t].done < MaxCalls
    /\ callers' = [callers EXCEPT ![t].pc = "store", ![t].tmp = rpc.id]
    /\ UNCHANGED <<rpc, lastCall, rabbitUrl, msgs, queue, drain, transfers, nacks, ledger,
                   reqs, resp, issued>>

\* rpc.py:25, `self._id += 1`: the write of the incremented value
CallStore(t) ==
    /\ callers[t].pc = "store"
    /\ rpc' = [rpc EXCEPT !.id = callers[t].tmp + 1]
    /\ callers' = [callers EXCEPT ![t].pc = "payload"]
    /\ UNCHANGED <<lastCall, rabbitUrl, msgs, queue, drain, transfers, nacks, ledger,
                   reqs, resp, issued>>

\* rpc.py:26-28: the payload is built with the value self._id has now
CallPayload(t) ==
    /\ callers[t].pc = "payload"
    /\ callers' = [callers EXCEPT ![t].pc = "post", ![t].id = rpc.id]
    /\ issued' = Append(issued, [thread |-> t, id |-> rpc.id])
    /\ UNCHANGED <<rpc, lastCall, rabbitUrl, msgs, queue, drain, transfers, nacks, ledger,
                   reqs, resp>>

\* rpc.py:29-57: the attempts with that payload, and the outcome
CallPost(t) ==
    /\ callers[t].pc = "post"
    /\ \E r1 \in SharedResponses :
       \E r2 \in (IF WantsDigestRetry(r1) THEN SharedResponses ELSE {NoResponse}) :
          lastCall' = [method |-> ThreadCall(t).method, params |-> ThreadCall(t).params,
                       r1 |-> r1, r2 |-> r2]
                      @@ Exchange(rpc, callers[t].id, ThreadCall(t).method,
                                  ThreadCall(t).params, r1, r2)
    /\ callers' = [callers EXCEPT ![t].pc = "idle", ![t].done = @ + 1]
    /\ UNCHANGED <<rpc, rabbitUrl, msgs, queue, drain, transfers, nacks, ledger,
                   reqs, resp, issued>>

NextShared ==
    \E t \in ClientThreads :
        \/ CallLoad(t)
        \/ CallStore(t)
        \/ CallPayload(t)
        \/ CallPost(t)

SpecShared == InitShared /\ [][NextShared]_vars

(***************************************************************************)
(* Claims about MoneroRPC.call                                             *)
(***************************************************************************)
\* the challenges that contain "digest" in some letter case, listed by hand
DigestChallenges == {ChallengeDigest, ChallengeDigestUpper, ChallengeBasicDigest}
FirstIs401Digest ==
    /\ lastCall.r1.kind = "http"
    /\ lastCall.r1.status = 401
    /\ \E c \in DigestChallenges : lastCall.r1.headers = [www_authenticate |-> c]
FirstIs401NoDigest ==
    /\ lastCall.r1.kind = "http"
    /\ lastCall.r1.status = 401
    /\ lastCall.r1.headers \in {EmptyDict, [www_authenticate |-> ChallengeBasic]}
\* the retry was answered 200 with a JSON-RPC body that carries no (non-empty) error
RetryIs200NoError ==
    /\ lastCall.r2.kind = "http"
    /\ lastCall.r2.status = 200
    /\ lastCall.r2.body.json
    /\ Get(lastCall.r2.body.data, "error", "") = ""
HasCredentials == rpc.username # None \/ rpc.password # None
C2_Case ==
    /\ lastCall.method # "none"
    /\ rpc.auth_scheme = sBasic
    /\ FirstIs401Digest
    /\ RetryIs200NoError

C3_NonDigest401Fails ==
    (lastCall.method # "none" /\ FirstIs401NoDigest) =>
        /\ ~lastCall.outcome.ok
        /\ lastCall.outcome.kind = "http"
        /\ lastCall.outcome.status = 401
        /\ Len(lastCall.attempts) = 1

C3_Witness ==
    /\ lastCall.method # "none"
    /\ lastCall.r1.kind = "http"
    /\ lastCall.r1.status = 401
    /\ lastCall.r1.headers = [www_authenticate |-> ChallengeBasic]
    /\ ~lastCall.outcome.ok
    /\ Len(lastCall.attempts) = 1

(***************************************************************************)
(* Claims about the drain cycle                                            *)
(***************************************************************************)
\* positions of the trace
Pos(p) == 1..Len(drain[p].trace)
IsGet(e) == e.op = "get" /\ e.msg # 0
Halted(p) == drain[p].pc \in {"close", "returned", "raised"}
\* the message fetched last is still being handled
Pending(p, m) == drain[p].cur = m /\ drain[p].pc \in {"dispatch", "ack", "nack"}

\* by the message alone: its body cannot be parsed to an object, or it is a withdraw
\* lacking a usable to_address or amount_xmr
Unprocessable(b) ==
    \/ b.raw \in {"malformed", "array"}
    \/ /\ b.raw = "object"
       /\ "type" \in DOMAIN b.obj
       /\ b.obj["type"] = "withdraw"
       /\ \/ "to_address" \notin DOMAIN b.obj
          \/ "amount_xmr" \notin DOMAIN b.obj
          \/ b.obj["amount_xmr"] \notin {"1", "2"}
\* the wallet confirmed a transfer_split made for the message fetched last
TransferReturned(p) ==
    \E i \in 1..Len(drain[p].calls) :
        drain[p].calls[i].method = "transfer_split" /\ drain[p].calls[i].ok
TransferRaised(p) ==
    \E i \in 1..Len(drain[p].calls) :
        drain[p].calls[i].method = "transfer_split" /\ ~drain[p].calls[i].ok
\* ... and its result was a mapping, so that _process_withdraw returned
TransferUsable(p) ==
    \E i \in 1..Len(drain[p].calls) :
        /\ drain[p].calls[i].method = "transfer_split"
        /\ drain[p].calls[i].ok
        /\ drain[p].calls[i].result # JsonNull
AckRaised(p, m) ==
    \E k \in Pos(p) : drain[p].trace[k] = BrokerEv("ack", m, FALSE)
Acked(p, m) ==
    \E k \in Pos(p) : drain[p].trace[k] = BrokerEv("ack", m, TRUE)
Nacked(p, m) ==
    \E k \in Pos(p) : drain[p].trace[k].op = "nack" /\ drain[p].trace[k].msg = m

\* parsing or processing of message m, fetched in p's cycle, failed
ProcessingFailed(p, m) ==
    \/ Unprocessable(msgs[m])
    \/ drain[p].cur = m /\ drain[p].pc # "dispatch" /\ TransferRaised(p)
    \/ drain[p].cur = m /\ drain[p].pc # "dispatch" /\ TransferReturned(p) /\ ~TransferUsable(p)
    \/ AckRaised(p, m)

\* C1: in a drain cycle, a fetched message whose parsing or processing fails is
\* negatively acknowledged (with requeue) and the cycle halts there: every message
\* fetched before it was positively acknowledged, and nothing is fetched after it.
C1_FailureNacksAndHalts ==
    \A p \in Drainers : \A i \in Pos(p) :
        LET tr == drain[p].trace
            m == tr[i].msg
        IN  (IsGet(tr[i]) /\ ProcessingFailed(p, m) /\ ~Pending(p, m)) =>
              /\ Halted(p)
              /\ tr[Len(tr)].op = "nack" /\ tr[Len(tr)].msg = m
              /\ \A j \in Pos(p) : j > i => ~IsGet(tr[j]) /\ tr[j].msg = m
              /\ \A j \in Pos(p) : (j < i /\ IsGet(tr[j])) =>
                    /\ tr[j].msg # m
                    /\ \E k \in (j + 1)..(i - 1) : tr[k] = BrokerEv("ack", tr[j].msg, TRUE)

\* three messages, the second malformed: ack 1, nack 2 (requeued), 3 never fetched
C1_Witness ==
    /\ Len(msgs) = 3
    /\ msgs[1] = MsgWithdraw
    /\ msgs[2] = MsgMalformed
    /\ drain["consumer"].pc = "returned"
    /\ drain["consumer"].trace =
          <<BrokerEv("get", 1, TRUE), BrokerEv("ack", 1, TRUE),
            BrokerEv("get", 2, TRUE), BrokerEv("nack", 2, TRUE)>>
    /\ queue = <<2, 3>>

\* C4: a drain cycle whose fetch finds the queue empty dispatches nothing (no wallet
\* call, no ack, no nack), ends without raising and has closed its connection.
C4_EmptyQueueCycle ==
    \A p \in Drainers :
        (Len(drain[p].trace) >= 1 /\ drain[p].trace[1] = BrokerEv("get", 0, TRUE)) =>
            /\ Len(drain[p].trace) = 1
            /\ drain[p].calls = <<>>
            /\ drain[p].processed = 0
            /\ ~drain[p].exc
            /\ drain[p].pc \in {"close", "returned"}
            /\ drain[p].pc = "returned" => drain[p].conn = "closed"

C4_Witness ==
    /\ msgs = <<>>
    /\ queue = <<>>
    /\ drain["consumer"].pc = "returned"
    /\ drain["consumer"].trace = <<BrokerEv("get", 0, TRUE)>>
    /\ drain["consumer"].conn = "closed"
    /\ rpc.id = 0

\* C10 (as stated): no message whose transfer_split call returned successfully is
\* afterwards negatively acknowledged, and so no message is transferred twice.
C10_Original ==
    /\ \A p \in Drainers : TransferReturned(p) => ~Nacked(p, drain[p].cur)
    /\ \A m \in DOMAIN transfers : transfers[m] <= 1

\* C10 (amended): a message whose transfer_split call returned successfully is
\* negatively acknowledged only when a later step of its handling raised: reading the
\* result (the wallet returned no mapping) or the positive acknowledgement basic_ack;
\* when basic_ack returns, the message is never negatively acknowledged.
C10_NackAfterTransferOnlyOnLateFailure ==
    \A p \in Drainers :
        LET m == drain[p].cur
        IN  /\ (TransferReturned(p) /\ Nacked(p, m)) =>
                    (~TransferUsable(p) \/ AckRaised(p, m))
            /\ Acked(p, m) => ~Nacked(p, m)

\* the transfer was confirmed, basic_ack raised, the message was requeued and a later
\* cycle transferred it again
C10_Witness ==
    /\ drain["consumer"].cycles = 2
    /\ drain["consumer"].cur = 1
    /\ TransferUsable("consumer")
    /\ AckRaised("consumer", 1)
    /\ Nacked("consumer", 1)
    /\ transfers[1] = 2

\* C11: a message that cannot be parsed, or a withdraw lacking to_address or amount_xmr,
\* is negatively acknowledged (requeued) once and not again in the cycles that follow
Poison(b) ==
    \/ b.raw = "malformed"
    \/ /\ b.raw = "object"
       /\ Get(b.obj, "type", None) = "withdraw"
       /\ ("to_address" \notin DOMAIN b.obj \/ "amount_xmr" \notin DOMAIN b.obj)
C11_PoisonRequeuedOnce ==
    \A m \in DOMAIN msgs : Poison(msgs[m]) => nacks[m] <= 1

\* the response the latest call() ended with: the retry's when one was made
FinalResponse == IF Len(lastCall.attempts) = 2 THEN lastCall.r2 ELSE lastCall.r1
\* its decoded body carries an "error" field that is not empty
CarriesError(r) ==
    /\ r.kind = "http" /\ r.body.json
    /\ "error" \in DOMAIN r.body.data /\ r.body.data["error"] # ""

\* C14: a call() whose final response, first attempt or digest retry, decodes to a
\* body with a non-empty "error" fails, with HTTP 200 as an RPC error; a call()
\* that returns yields the body's "result", or the empty mapping when it has none,
\* and its body carried no such error
C14_ErrorFieldFails ==
    lastCall.method # "none" =>
        LET r == FinalResponse
        IN  /\ CarriesError(r) => ~lastCall.outcome.ok
            /\ (CarriesError(r) /\ r.status = 200) => lastCall.outcome.kind = "rpc_error"
            /\ lastCall.outcome.ok =>
                  /\ ~CarriesError(r)
                  /\ lastCall.outcome.result = Get(r.body.data, "result", EmptyDict)
            /\ (r.kind = "http" /\ r.status = 200 /\ r.body.json /\ ~CarriesError(r))
                  => lastCall.outcome.ok
\* the digest retry is answered 200 with both an error and a result
C14_Witness ==
    /\ Len(lastCall.attempts) = 2
    /\ lastCall.r2.status = 200
    /\ CarriesError(lastCall.r2)
    /\ "result" \in DOMAIN lastCall.r2.body.data
    /\ lastCall.outcome.kind = "rpc_error"

\* C19: one call() posts at most twice; it posts a second time only after a first
\* response 401 whose challenge names digest; and when the response to that retry is
\* not 2xx, another 401 with a digest challenge included, the call fails reporting
\* that status, the configured scheme and that response's challenge
C19_AtMostTwoAttempts ==
    lastCall.method # "none" =>
        /\ Len(lastCall.attempts) \in {1, 2}
        /\ Len(lastCall.attempts) = 2 => FirstIs401Digest
        /\ (Len(lastCall.attempts) = 2 /\ lastCall.r2.kind = "http"
                /\ lastCall.r2.status \notin 200..299) =>
              /\ ~lastCall.outcome.ok
              /\ lastCall.outcome.kind = "http"
              /\ lastCall.outcome.status = lastCall.r2.status
              /\ lastCall.outcome.scheme = rpc.auth_scheme
              /\ lastCall.outcome.www =
                    (IF "www_authenticate" \in DOMAIN lastCall.r2.headers
                     THEN lastCall.r2.headers["www_authenticate"] ELSE <<>>)
\* the digest retry is answered by another 401 with a digest challenge
C19_Witness ==
    /\ Len(lastCall.attempts) = 2
    /\ lastCall.r2.status = 401
    /\ lastCall.r2.headers = [www_authenticate |-> ChallengeDigest]
    /\ lastCall.outcome.kind = "http"
    /\ lastCall.outcome.status = 401
    /\ lastCall.outcome.www = ChallengeDigest

\* C13: whenever a drain cycle has ended, by returning (also after halting on a
\* message it could not process) or by raising, the consumer loop begins another
\* cycle; the thread is never left outside the loop
C13_LoopContinues ==
    /\ [](\A p \in Drainers : drain[p].pc # "dead")
    /\ \A p \in Drainers : \A k \in 1..(MaxCycles - 1) :
          (drain[p].pc \in {"returned", "raised"} /\ drain[p].cycles = k)
             ~> (drain[p].cycles = k + 1)
\* a second cycle runs after the first one halted on a message it cannot process
C13_Witness ==
    /\ drain["consumer"].cycles = 2
    /\ drain["consumer"].pc = "channel"
    /\ Len(msgs) = 1 /\ Poison(msgs[1]) /\ nacks[1] = 1

\* by the message alone: it parses as JSON (or is empty) and is no object of type
\* "withdraw": another type, no type, or no object at all
NotWithdraw(b) ==
    \/ b.raw \in {"empty", "array"}
    \/ b.raw = "object" /\ ("type" \in DOMAIN b.obj => b.obj["type"] # "withdraw")

\* C15: in a drain cycle, a fetched message that is not of type "withdraw" is
\* positively acknowledged and never negatively acknowledged, no wallet RPC call is
\* made for it, and the cycle goes on to fetch the next message
C15_NonWithdrawAcked ==
    /\ \A m \in DOMAIN msgs : NotWithdraw(msgs[m]) => nacks[m] = 0
    /\ \A p \in Drainers : \A i \in Pos(p) :
          LET tr == drain[p].trace
              m == tr[i].msg
          IN  (IsGet(tr[i]) /\ NotWithdraw(msgs[m])) =>
                /\ drain[p].cur = m => drain[p].calls = <<>>
                /\ ~Pending(p, m) =>
                      /\ Acked(p, m)
                      /\ ~Nacked(p, m)
                      /\ Halted(p) => \E j \in Pos(p) : j > i /\ tr[j].op = "get"

\* C16: when a drain cycle has exited, by returning or by raising, the broker
\* connection it opened is closed
C16_ConnectionClosed ==
    \A p \in Drainers :
        drain[p].pc \in {"returned", "raised"} => drain[p].conn \in {"none", "closed"}

\* a withdraw message without to_address or without amount_xmr
WithdrawLacksField(b) ==
    /\ b.raw = "object"
    /\ "type" \in DOMAIN b.obj /\ b.obj["type"] = "withdraw"
    /\ ("to_address" \notin DOMAIN b.obj \/ "amount_xmr" \notin DOMAIN b.obj)

\* C17: for a withdraw message lacking to_address or amount_xmr, with or without
\* from_address, _process_withdraw raises (the message goes to the except handler,
\* never to basic_ack) and no wallet RPC call has been made: the client's request
\* counter stays where it was while only such messages are handled
C17_FailsFast ==
    /\ \A p \in Drainers :
          (drain[p].cur # 0 /\ WithdrawLacksField(msgs[drain[p].cur])) =>
             /\ drain[p].pc # "ack"
             /\ drain[p].calls = <<>>
             /\ \A k \in Pos(p) :
                   ~(drain[p].trace[k].op = "ack" /\ drain[p].trace[k].msg = drain[p].cur)
    /\ (\A m \in DOMAIN msgs : WithdrawLacksField(msgs[m])) => rpc.id = 0
\* the message without amount_xmr but with from_address was processed and nacked
C17_Witness ==
    /\ msgs = <<MsgWithdrawNoAmount>>
    /\ "from_address" \in DOMAIN msgs[1].obj
    /\ drain["consumer"].cur = 1
    /\ drain["consumer"].pc = "returned"
    /\ nacks[1] = 1
    /\ rpc.id = 0

\* a withdraw message with to_address, a numeric amount_xmr and a from_address
WithdrawWithSource(b) ==
    /\ b.raw = "object"
    /\ {"type", "to_address", "amount_xmr", "from_address"} \subseteq DOMAIN b.obj
    /\ b.obj["type"] = "withdraw"
    /\ b.obj["amount_xmr"] \in {"1", "2"}

\* C18: for a withdraw message with from_address, get_address_index is asked for
\* that address and transfer_split is issued after it in either case: without
\* account_index and subaddr_indices when the resolution failed, with exactly the
\* resolved major and minor index when it succeeded
C18_ResolutionFailureProceeds ==
    \A p \in Drainers :
        (drain[p].cur # 0 /\ drain[p].pc # "dispatch"
            /\ WithdrawWithSource(msgs[drain[p].cur])) =>
          LET c == drain[p].calls
              src == msgs[drain[p].cur].obj["from_address"]
          IN  /\ Len(c) = 2
              /\ c[1].method = "get_address_index" /\ c[1].params = [address |-> src]
              /\ c[2].method = "transfer_split"
              /\ c[2].params["destinations"][1]["address"]
                    = msgs[drain[p].cur].obj["to_address"]
              /\ IF c[1].ok /\ c[1].result # JsonNull
                 THEN /\ {"account_index", "subaddr_indices"} \subseteq DOMAIN c[2].params
                      /\ c[2].params["account_index"]
                            = (IF "index" \in DOMAIN c[1].result
                               THEN c[1].result["index"]["major"] ELSE 0)
                      /\ c[2].params["subaddr_indices"]
                            = <<IF "index" \in DOMAIN c[1].result
                                THEN c[1].result["index"]["minor"] ELSE 0>>
                 ELSE {"account_index", "subaddr_indices"} \cap DOMAIN c[2].params = {}
\* the resolution raised, the transfer went out unbound and the message was acked
C18_Witness ==
    /\ msgs = <<MsgWithdrawFrom>>
    /\ drain["consumer"].cur = 1
    /\ Len(drain["consumer"].calls) = 2
    /\ ~drain["consumer"].calls[1].ok
    /\ drain["consumer"].calls[2].ok
    /\ "account_index" \notin DOMAIN drain["consumer"].calls[2].params
    /\ drain["consumer"].trace = <<BrokerEv("get", 1, TRUE), BrokerEv("ack", 1, TRUE)>>

\* C20: every call() on the shared client puts into its payload an id greater than
\* the id of every call whose payload was built before, whichever thread made it,
\* and every attempt of a call, the digest retry included, carries the call's id
C20_FreshIds ==
    /\ \A i, j \in 1..Len(issued) : i < j => issued[i].id < issued[j].id
    /\ \A k \in 1..Len(lastCall.attempts) : lastCall.attempts[k].payload.id = lastCall.id

\* the broker calls that follow the fetch at position i of p's trace, up to the
\* next basic_get or the end of the trace
Decisions(p, i) ==
    {j \in Pos(p) : j > i /\ \A k \in (i + 1)..j : drain[p].trace[k].op # "get"}
DecisionOps(p, i) == [j \in Decisions(p, i) |-> drain[p].trace[j]]

\* C21 as stated: once a fetched message is dealt with, exactly one basic_ack or
\* basic_nack was called for it before the next fetch or the end of the cycle
C21_Original ==
    \A p \in Drainers : \A i \in Pos(p) :
        LET m == drain[p].trace[i].msg
        IN  (IsGet(drain[p].trace[i]) /\ ~Pending(p, m)) =>
              /\ Cardinality(Decisions(p, i)) = 1
              /\ \A j \in Decisions(p, i) : drain[p].trace[j].msg = m

\* C21: once a fetched message is dealt with, basic_ack or basic_nack was called
\* for it before the next fetch or the end of the cycle; a basic_ack that returned
\* is the only call; basic_nack follows a basic_ack only when that basic_ack raised;
\* and a basic_nack that raised ends the cycle with no further call
C21_OneDecisionUnlessAckRaises ==
    \A p \in Drainers : \A i \in Pos(p) :
        LET m == drain[p].trace[i].msg
            d == Decisions(p, i)
            tr == drain[p].trace
        IN  (IsGet(tr[i]) /\ ~Pending(p, m)) =>
              /\ d # {}
              /\ \A j \in d : tr[j].msg = m /\ tr[j].op \in {"ack", "nack"}
              /\ d \subseteq {i + 1, i + 2}
              /\ (tr[i + 1] = BrokerEv("ack", m, TRUE)) => d = {i + 1}
              /\ (i + 2 \in d) =>
                    /\ tr[i + 1] = BrokerEv("ack", m, FALSE)
                    /\ tr[i + 2].op = "nack"
              /\ (tr[i + 1] = BrokerEv("ack", m, FALSE)) => i + 2 \in d
              /\ (\E j \in d : tr[j].op = "nack") => Len(tr) = i + Cardinality(d)
\* the second of three messages: its basic_ack raised and basic_nack was called too
C21_Witness ==
    /\ Len(msgs) = 3
    /\ drain["consumer"].pc = "returned"
    /\ drain["consumer"].trace =
          <<BrokerEv("get", 1, TRUE), BrokerEv("ack", 1, TRUE),
            BrokerEv("get", 2, TRUE), BrokerEv("ack", 2, FALSE), BrokerEv("nack", 2, TRUE)>>

\* a message of type "withdraw"
IsWithdraw(b) == b.raw = "object" /\ "type" \in DOMAIN b.obj /\ b.obj["type"] = "withdraw"
\* its validation fails: a required field is missing or the amount is no number
ValidationFails(b) ==
    \/ "to_address" \notin DOMAIN b.obj
    \/ "amount_xmr" \notin DOMAIN b.obj
    \/ b.obj["amount_xmr"] \notin {"1", "2"}
InQueue(m) == \E k \in 1..Len(queue) : queue[k] = m
Unacked(m) ==
    \E p \in Drainers : \E k \in 1..Len(drain[p].unacked) : drain[p].unacked[k] = m

\* C22: a withdraw message goes to basic_ack only when the transfer_split call made
\* for it in this cycle returned; a withdraw message for which no transfer_split
\* call ever returned is still in the queue or held unacknowledged by the running
\* cycle; and when its validation or its transfer failed, basic_nack was called for
\* it, basic_ack was not, and at the end of the cycle it is back in the queue
C22_NoWithdrawalLost ==
    /\ \A m \in DOMAIN msgs :
          (IsWithdraw(msgs[m]) /\ transfers[m] = 0) => (InQueue(m) \/ Unacked(m))
    /\ \A p \in Drainers :
          LET m == drain[p].cur
          IN  (m # 0 /\ IsWithdraw(msgs[m])) =>
                /\ (drain[p].pc = "ack" \/ \E k \in Pos(p) :
                        drain[p].trace[k].op = "ack" /\ drain[p].trace[k].msg = m)
                      => TransferReturned(p)
                /\ (drain[p].pc \in {"returned", "raised"}
                        /\ (ValidationFails(msgs[m]) \/ TransferRaised(p))) =>
                      /\ Nacked(p, m)
                      /\ ~AckRaised(p, m) /\ ~Acked(p, m)
                      /\ InQueue(m)
\* the transfer of a withdraw message raised: it was nacked and is in the queue again
C22_Witness ==
    /\ msgs = <<MsgWithdraw>>
    /\ drain["consumer"].pc = "returned"
    /\ TransferRaised("consumer")
    /\ drain["consumer"].trace = <<BrokerEv("get", 1, TRUE), BrokerEv("nack", 1, TRUE)>>
    /\ queue = <<1>>
    /\ transfers = <<0>>

\* an execution of _drain_queue_once is in progress in thread p
InCycle(p) == drain[p].pc \in {"channel", "declare", "get", "dispatch", "ack", "nack", "close"}
CycleBegins(p) == drain'[p].cycles > drain[p].cycles

TransferRoutes == {"POST /transfer", "POST /transfer_split"}
TransferMethods == {"transfer", "transfer_split"}
Served(routes) == resp.route \in routes
CallsOf(method) == {i \in 1..Len(resp.calls) : resp.calls[i].method = method}
MissingField ==
    \/ Falsy(Get(resp.payload, "to_address", None))
    \/ Get(resp.payload, "amount_xmr", None) = None
ResolutionFailed ==
    \E i \in CallsOf("get_address_index") :
        ~resp.calls[i].ok \/ ~IsDict(resp.calls[i].result)

\* C7: POST /transfer and POST /transfer_split answer 400 and issue no transfer or
\* transfer_split call when to_address or amount_xmr is missing, and when the
\* get_address_index resolution of a supplied from_address fails; a missing field is
\* refused before any wallet call
C7_TransferRefused ==
    Served(TransferRoutes) =>
        /\ MissingField => resp.status = 400 /\ resp.calls = <<>>
        /\ ResolutionFailed =>
              /\ resp.status = 400
              /\ \A method \in TransferMethods : CallsOf(method) = {}
C7_Witness ==
    /\ Served({"POST /transfer_split"})
    /\ ~MissingField
    /\ ResolutionFailed
    /\ resp.status = 400
    /\ Len(resp.calls) = 1

NoDestination == Falsy(Get(resp.payload, "to_address", None))
\* the sweep_all call follows a get_address call for account 0, index 0
SweepAfterPrimaryLookup ==
    \A i \in CallsOf("sweep_all") :
        /\ i > 1
        /\ resp.calls[i - 1].method = "get_address"
        /\ resp.calls[i - 1].params = [account_index |-> 0, address_index |-> <<0>>]
        /\ resp.calls[i - 1].ok

\* C8: POST /sweep_all without to_address resolves the primary address (get_address for
\* account 0, index 0) before it issues sweep_all, and the destination of the sweep_all
\* call is never empty
C8_SweepToPrimary ==
    (Served({"POST /sweep_all"}) /\ NoDestination) =>
        /\ SweepAfterPrimaryLookup
        /\ \A i \in CallsOf("sweep_all") : ~Falsy(resp.calls[i].params.address)

\* C9: POST /admin/drain answers 200 with {status: "ok"}, and GET /admin/queue answers
\* 200 with enabled = true and a message_count when RABBITMQ_URL is configured
C9_AdminEndpoints ==
    /\ Served({"POST /admin/drain"}) =>
          resp.status = 200 /\ resp.body = [status |-> "ok"]
    /\ (Served({"GET /admin/queue"}) /\ rabbitUrl) =>
          /\ resp.status = 200
          /\ "message_count" \in DOMAIN resp.body
          /\ Get(resp.body, "enabled", FALSE) = TRUE

(***************************************************************************)
(* Claims about the address ledger                                         *)
(***************************************************************************)
Slots == DOMAIN reqs
AddressesDistinct(rows) ==
    \A i, j \in 1..Len(rows) : i # j => rows[i].address # rows[j].address
\* the address the wallet handed to the request, None when it handed none
Offered(r) ==
    IF r.calls # <<>> /\ "ok" \in DOMAIN r.calls[1] /\ r.calls[1].ok
       /\ IsDict(r.calls[1].result)
    THEN Get(r.calls[1].result, "address", None)
    ELSE None
Taken(rows, address) == \E i \in 1..Len(rows) : rows[i].address = address
\* the step in which the request of slot s gets its response
Responds(s) == reqs[s].pc # "done" /\ reqs'[s].pc = "done"

\* C5: no two ledger records ever have the same address, whatever the interleaving of
\* the POST /addresses requests; a request whose insertion meets a record with the same
\* address fails (IntegrityError, answered 500) and leaves the ledger unchanged
C5_AddressUnique ==
    /\ [](AddressesDistinct(ledger))
    /\ [][\A s \in Slots :
            (Responds(s) /\ Taken(ledger, Offered(reqs'[s]))) =>
                (ledger' = ledger /\ reqs'[s].status = 500)]_vars
C5_Witness ==
    \E s \in Slots :
        /\ reqs[s].pc = "done"
        /\ reqs[s].status = 500
        /\ Offered(reqs[s]) # None
        /\ \E i \in 1..Len(ledger) :
              ledger[i].address = Offered(reqs[s]) /\ ledger[i].id # 0

LacksUserId(r) == Get(r.payload, "user_id", None) = None
\* C6: POST /addresses without user_id is answered 400 at once: no wallet RPC call is
\* made and no ledger record is added
C6_NoUserIdRefused ==
    /\ [](\A s \in Slots :
            (reqs[s].pc # "idle" /\ LacksUserId(reqs[s])) =>
                (reqs[s].pc = "done" /\ reqs[s].status = 400 /\ reqs[s].calls = <<>>))
    /\ [][\A s \in Slots :
            (Responds(s) /\ LacksUserId(reqs'[s])) => (ledger' = ledger /\ rpc' = rpc)]_vars
C6_Witness ==
    \E s \in Slots :
        /\ reqs[s].pc = "done"
        /\ LacksUserId(reqs[s])
        /\ reqs[s].status = 400
        /\ \E t \in Slots : reqs[t].pc = "done" /\ reqs[t].status = 200

====
